---------------------------- MODULE Spec2Model ----------------------------
(***************************************************************************)
(* Model of the FlatMate backend (src/backend/app): the token issuer,      *)
(* the refresh-token table, the authorization guards and the listing       *)
(* moderation operations.                                                  *)
(*                                                                         *)
(* Time is counted in whole minutes since start-up.  An id of 0 stands for *)
(* Python's None (row ids start at 1, and the code treats None and 0 the   *)
(* same way in `a or b` / `not a`).                                        *)
(***************************************************************************)
EXTENDS Integers, Sequences, FiniteSets, TLC

VARIABLES
    users,      \* table users: sequence of rows, id = index
    rows,       \* table user_refresh_tokens: sequence of rows, id = index
    props,      \* table properties: function id -> row (deleted ids are absent)
    nextPropId, \* next autoincrement id of table properties
    now,        \* datetime.utcnow(), in minutes
    ticks,      \* number of clock steps taken so far
    held,       \* tokens handed out to clients, with how they were produced
    resp,       \* the last operation and its outcome
    txn         \* in-flight requests of the interleaved specification

vars == <<users, rows, props, nextPropId, now, ticks, held, resp, txn>>

-----------------------------------------------------------------------------
(* Bounds of the model *)

MaxTicks == 1
MaxTokTicks == 2
MaxHeld == 1
MaxUsers == 2
MaxSessions == 2
MaxProcs == 2
MaxProps == 1
MaxModTicks == 1

-----------------------------------------------------------------------------
(* app/core/config.py *)

JWT_SECRET_KEY == "change-me-access-secret"
JWT_REFRESH_SECRET_KEY == "change-me-refresh-secret"
ACCESS_TOKEN_EXPIRE_MINUTES == 30
REFRESH_TOKEN_EXPIRE_DAYS == 7

MinutesPerDay == 1440

Roles == {"user", "host", "admin"}

None == 0

-----------------------------------------------------------------------------
(* jose.jwt, as far as the code relies on it.  A token is its claims and   *)
(* the key it was signed with; decoding checks the signature and then exp. *)

jwt_encode(claims, key) == [claims |-> claims, sig |-> key]

jwt_decode_ignore_exp(token, key, t) ==
    IF token.sig = key
    THEN [ok |-> TRUE, payload |-> token.claims]
    ELSE [ok |-> FALSE, payload |-> <<>>]

\* jwt.decode raises (ok = FALSE) on a bad signature or when exp < now.
jwt_decode(token, key, t) ==
    IF token.sig = key /\ ~(token.claims.exp < t)
    THEN [ok |-> TRUE, payload |-> token.claims]
    ELSE [ok |-> FALSE, payload |-> <<>>]

\* dict.get(k) on a decoded payload: None when the key is absent.
Get(payload, k) == IF k \in DOMAIN payload THEN payload[k] ELSE None

-----------------------------------------------------------------------------
(* app/core/security.py *)

get_password_hash(password) == <<"pbkdf2_sha256", password>>

verify_password(plain_password, hashed_password) ==
    hashed_password = <<"pbkdf2_sha256", plain_password>>

\* to_encode = data.copy(); update iat, exp, type; jwt.encode
create_token(data, expires_delta, secret_key, token_type, t) ==
    jwt_encode([k \in DOMAIN data \cup {"iat", "exp", "type"} |->
                   CASE k = "iat" -> t
                     [] k = "exp" -> t + expires_delta
                     [] k = "type" -> token_type
                     [] OTHER -> data[k]],
               secret_key)

create_access_token_long(data, t) ==
    create_token(data, REFRESH_TOKEN_EXPIRE_DAYS * MinutesPerDay,
                 JWT_SECRET_KEY, "access", t)

create_access_token(data, t) ==
    create_token(data, ACCESS_TOKEN_EXPIRE_MINUTES, JWT_SECRET_KEY, "access", t)

create_refresh_token(data, t) ==
    create_token(data, REFRESH_TOKEN_EXPIRE_DAYS * MinutesPerDay,
                 JWT_REFRESH_SECRET_KEY, "refresh", t)

\* Try the access secret, then the refresh secret; raise only if both fail.
decode_token(token, t) ==
    IF jwt_decode(token, JWT_SECRET_KEY, t).ok
    THEN jwt_decode(token, JWT_SECRET_KEY, t)
    ELSE jwt_decode(token, JWT_REFRESH_SECRET_KEY, t)

verify_access_token_either(token, t) == decode_token(token, t)

verify_access_token(token, t) ==
    LET d == jwt_decode(token, JWT_SECRET_KEY, t) IN
    IF ~d.ok THEN d
    ELSE IF Get(d.payload, "type") # "access" THEN [ok |-> FALSE, payload |-> <<>>]
    ELSE IF "user_id" \notin DOMAIN d.payload THEN [ok |-> FALSE, payload |-> <<>>]
    ELSE d

-----------------------------------------------------------------------------
(* Initial state: the tables as provisioned (scripts/seed.py: the admin    *)
(* exists before the first request), no session, no listing.               *)

SeedUsers ==
    << [email |-> "admin@example.com",
        hashed_password |-> get_password_hash("password"), role |-> "admin"] >>

NoResp == [op |-> "none"]

Procs == 1..MaxProcs

Idle == [pc |-> "idle"]

Init ==
    /\ users = SeedUsers
    /\ rows = <<>>
    /\ props = <<>>
    /\ nextPropId = 1
    /\ now = 0
    /\ ticks = 0
    /\ held = {}
    /\ resp = NoResp
    /\ txn = [p \in Procs |-> Idle]

\* The clock advances; the steps reach each side of both expiry times.
TickSteps == {1, ACCESS_TOKEN_EXPIRE_MINUTES, REFRESH_TOKEN_EXPIRE_DAYS * MinutesPerDay}

\* Coarser steps: just past the access expiry, just past the refresh expiry.
ExpirySteps == {ACCESS_TOKEN_EXPIRE_MINUTES + 1,
                REFRESH_TOKEN_EXPIRE_DAYS * MinutesPerDay + 1}

Tick(steps, bound) ==
    /\ ticks < bound
    /\ \E d \in steps : now' = now + d
    /\ ticks' = ticks + 1
    /\ UNCHANGED <<users, rows, props, nextPropId, held, resp, txn>>

-----------------------------------------------------------------------------
(* The token issuer on its own: tokens are minted from every claims set    *)
(* and verified at every later time.                                       *)

ClaimSets == [user_id : 1..2, role : Roles]

IssueAccess ==
    /\ Cardinality(held) < MaxHeld
    /\ \E data \in ClaimSets :
         /\ held' = held \cup {[tok |-> create_access_token(data, now),
                                by |-> "create_access_token",
                                data |-> data, at |-> now]}
         /\ resp' = [op |-> "create_access_token"]
    /\ UNCHANGED <<users, rows, props, nextPropId, now, ticks, txn>>

IssueRefresh ==
    /\ Cardinality(held) < MaxHeld
    /\ \E data \in ClaimSets :
         /\ held' = held \cup {[tok |-> create_refresh_token(data, now),
                                by |-> "create_refresh_token",
                                data |-> data, at |-> now]}
         /\ resp' = [op |-> "create_refresh_token"]
    /\ UNCHANGED <<users, rows, props, nextPropId, now, ticks, txn>>

VerifyAccess ==
    /\ \E h \in held :
         resp' = [op |-> "verify_access_token", by |-> h.by, data |-> h.data,
                  issued |-> h.at, time |-> now,
                  result |-> verify_access_token(h.tok, now)]
    /\ UNCHANGED <<users, rows, props, nextPropId, now, ticks, held, txn>>

NextTok == IssueAccess \/ IssueRefresh \/ VerifyAccess \/ Tick(TickSteps, MaxTokTicks)

SpecTok == Init /\ [][NextTok]_vars

\* C5: verify_access_token(create_access_token(claims)) returns the same user id
\* and role at every time strictly before issue time + ACCESS_TOKEN_EXPIRE_MINUTES
\* and fails at every time after it.
C5_AccessRoundTrip ==
    (resp.op = "verify_access_token" /\ resp.by = "create_access_token") =>
        /\ (resp.time < resp.issued + ACCESS_TOKEN_EXPIRE_MINUTES) =>
              /\ resp.result.ok
              /\ resp.result.payload.user_id = resp.data.user_id
              /\ resp.result.payload.role = resp.data.role
        /\ (resp.time > resp.issued + ACCESS_TOKEN_EXPIRE_MINUTES) =>
              ~resp.result.ok

C5_Witness ==
    /\ resp.op = "verify_access_token" /\ resp.by = "create_access_token"
    /\ resp.time > resp.issued + ACCESS_TOKEN_EXPIRE_MINUTES
    /\ ~resp.result.ok
    /\ \E h \in held : h.by = "create_access_token"
                       /\ verify_access_token(h.tok, h.at + 1).ok

\* C6: verify_access_token rejects every token produced by create_refresh_token,
\* at any time, expired or not.
C6_RefreshRejected ==
    (resp.op = "verify_access_token" /\ resp.by = "create_refresh_token") =>
        ~resp.result.ok

C6_Witness ==
    /\ resp.op = "verify_access_token" /\ resp.by = "create_refresh_token"
    /\ resp.time < resp.issued + REFRESH_TOKEN_EXPIRE_DAYS * MinutesPerDay
    /\ ~resp.result.ok

-----------------------------------------------------------------------------
(* app/db/crud_users.py, each call one transaction *)

get_user(U, user_id) == IF user_id \in DOMAIN U THEN user_id ELSE None

get_user_by_email(U, email) ==
    IF \E i \in DOMAIN U : U[i].email = email
    THEN CHOOSE i \in DOMAIN U : U[i].email = email
    ELSE None

create_user_with_role(U, email, password, role) ==
    Append(U, [email |-> email, hashed_password |-> get_password_hash(password),
               role |-> role])

create_user(U, email, password) == create_user_with_role(U, email, password, "user")

\* UPDATE ... SET revoked = TRUE WHERE user_id = :user_id AND revoked = FALSE
RevokeAllFor(R, user_id) ==
    [i \in DOMAIN R |->
        IF R[i].user_id = user_id /\ ~R[i].revoked
        THEN [R[i] EXCEPT !.revoked = TRUE] ELSE R[i]]

InsertRow(R, user_id, token) ==
    Append(R, [user_id |-> user_id, token |-> token, revoked |-> FALSE])

save_refresh_token_replacing(R, user_id, token) ==
    LET Others_(r) == r.user_id # user_id
    IN InsertRow(SelectSeq(R, Others_), user_id, token)

\* revoke existing, then insert new, then commit
save_refresh_token(R, user_id, token) ==
    InsertRow(RevokeAllFor(R, user_id), user_id, token)

revoke_refresh_token_every_row(R, token) ==
    [i \in DOMAIN R |-> [R[i] EXCEPT !.revoked = TRUE]]

\* UPDATE ... SET revoked = TRUE WHERE token = :token AND revoked = FALSE
revoke_refresh_token(R, token) ==
    [i \in DOMAIN R |->
        IF R[i].token = token /\ ~R[i].revoked
        THEN [R[i] EXCEPT !.revoked = TRUE] ELSE R[i]]

ActiveRows(R, user_id) == {i \in DOMAIN R : R[i].user_id = user_id /\ ~R[i].revoked}

-----------------------------------------------------------------------------
(* The authorization guards.  A guard returns the HTTP status it ends with *)
(* (200: the dependency resolved) and the id of the user it resolved.      *)

Denied(status, detail) == [status |-> status, detail |-> detail, user_id |-> None]
Resolved(user_id) == [status |-> 200, detail |-> "", user_id |-> user_id]

\* Python's `a or b` on ids
OrElse(a, b) == IF a # None THEN a ELSE b

\* app/api/dependencies.py get_current_user
api_get_current_user(credentials, token, t, U) ==
    IF ~credentials THEN Denied(401, "Not authenticated")
    ELSE LET d == decode_token(token, t) IN
         IF ~d.ok THEN Denied(401, "Invalid token")
         ELSE LET user_id == OrElse(Get(d.payload, "sub"), Get(d.payload, "user_id")) IN
              IF user_id = None THEN Denied(401, "Invalid token")
              ELSE IF get_user(U, user_id) = None THEN Denied(401, "User not found")
              ELSE Resolved(user_id)

\* app/core/deps.py get_current_user
core_get_current_user(credentials, token, t, U) ==
    IF ~credentials THEN Denied(401, "Not authenticated")
    ELSE LET d == verify_access_token(token, t) IN
         IF ~d.ok THEN Denied(401, "Invalid token")
         ELSE LET user_id == Get(d.payload, "sub") IN
              IF user_id = None THEN Denied(401, "Invalid token payload")
              ELSE IF get_user(U, user_id) = None THEN Denied(401, "User not found")
              ELSE Resolved(user_id)

get_current_user(impl, credentials, token, t, U) ==
    IF impl = "api" THEN api_get_current_user(credentials, token, t, U)
    ELSE core_get_current_user(credentials, token, t, U)

Guards == {"api", "core"}

require_role_any(role, g, U) == g

require_role_exact(role, g, U) ==
    IF g.status # 200 THEN g
    ELSE IF U[g.user_id].role # role THEN Denied(403, "Insufficient permissions")
    ELSE g

\* require_role(role) of both modules: the role itself or admin passes
require_role(role, g, U) ==
    IF g.status # 200 THEN g
    ELSE IF U[g.user_id].role # role /\ U[g.user_id].role # "admin"
         THEN Denied(403, "Insufficient permissions")
    ELSE g

-----------------------------------------------------------------------------
(* Requests: what a client can send *)

Emails == {"admin@example.com", "alice@example.com"}
Passwords == {"password", "guess"}

\* A bearer string that was signed by nobody's key
ForgedToken ==
    jwt_encode([user_id |-> 1, role |-> "admin", iat |-> 0,
                exp |-> (REFRESH_TOKEN_EXPIRE_DAYS * MinutesPerDay + 1) * (MaxTicks + 1),
                type |-> "access"], "not-a-server-key")

\* What a client may present as its bearer credential: nothing, a forged
\* string, or any token a response gave out.
Bearers ==
    {[credentials |-> FALSE, token |-> ForgedToken],
     [credentials |-> TRUE, token |-> ForgedToken]}
    \cup {[credentials |-> TRUE, token |-> h.tok] : h \in held}

\* The same without the forged string and the refresh tokens: a client that
\* sends no credential or an access token it was given.
AccessBearers ==
    {[credentials |-> FALSE, token |-> ForgedToken]}
    \cup {[credentials |-> TRUE, token |-> h.tok] :
             h \in {x \in held : x.by = "create_access_token"}}

Handout(data, access, refresh, t) ==
    {[tok |-> access, by |-> "create_access_token", data |-> data, at |-> t],
     [tok |-> refresh, by |-> "create_refresh_token", data |-> data, at |-> t]}

CanIssue == Len(rows) < MaxSessions /\ Cardinality(held) + 2 <= 2 * MaxSessions

IssuePair_unguarded(op, user_id, U, outcomes, request) ==
    LET data == [user_id |-> user_id, role |-> U[user_id].role]
        access == create_access_token(data, now)
        refresh == create_refresh_token(data, now)
    IN \E saved \in outcomes :
         /\ rows' = IF saved THEN save_refresh_token(rows, user_id, refresh) ELSE rows
         /\ held' = IF saved THEN held \cup Handout(data, access, refresh, now) ELSE held
         /\ resp' = IF saved
                    THEN [op |-> op, status |-> 200, user_id |-> user_id,
                          access_token |-> access, refresh_token |-> refresh,
                          saved |-> saved, request |-> request]
                    ELSE [op |-> op, status |-> 500, detail |-> "Internal Server Error",
                          saved |-> saved, request |-> request]

\* The tail shared by register, login and refresh: mint the pair, persist the
\* refresh token (an exception of the write is swallowed), answer 200.
\* `outcomes` are the outcomes of the write the specification lets happen
\* (TRUE: committed, FALSE: it raised).
IssuePair(op, user_id, U, outcomes, request) ==
    LET data == [user_id |-> user_id, role |-> U[user_id].role]
        access == create_access_token(data, now)
        refresh == create_refresh_token(data, now)
    IN \E saved \in outcomes :
         /\ rows' = IF saved THEN save_refresh_token(rows, user_id, refresh) ELSE rows
         /\ held' = held \cup Handout(data, access, refresh, now)
         /\ resp' = [op |-> op, status |-> 200, user_id |-> user_id,
                     access_token |-> access, refresh_token |-> refresh,
                     saved |-> saved, request |-> request]

Fail(op, status, detail) ==
    resp' = [op |-> op, status |-> status, detail |-> detail]

\* The answer of a raised HTTPException, with the request it answers
FailOn(op, status, detail, request) ==
    resp' = [op |-> op, status |-> status, detail |-> detail, request |-> request]

-----------------------------------------------------------------------------
(* app/api/routers/auth.py *)

register(outcomes) ==
    \E email \in Emails, password \in {"password"} :
        LET request == [email |-> email, password |-> password] IN
        IF get_user_by_email(users, email) # None
        THEN /\ FailOn("register", 400, "Email exists", request)
             /\ UNCHANGED <<users, rows, held>>
        ELSE /\ Len(users) < MaxUsers
             /\ CanIssue
             /\ users' = create_user(users, email, password)
             /\ IssuePair("register", Len(users) + 1, users', outcomes, request)

login_tells_unknown_email(outcomes) ==
    \E email \in Emails \cup {""}, password \in Passwords :
        LET request == [email |-> email, password |-> password] IN
        IF email = ""
        THEN /\ FailOn("login", 400, "Missing email or password", request)
             /\ UNCHANGED <<users, rows, held>>
        ELSE LET user == get_user_by_email(users, email) IN
             IF user = None
             THEN /\ FailOn("login", 404, "User not found", request)
                  /\ UNCHANGED <<users, rows, held>>
             ELSE IF ~verify_password(password, users[user].hashed_password)
             THEN /\ FailOn("login", 401, "Invalid credentials", request)
                  /\ UNCHANGED <<users, rows, held>>
             ELSE /\ CanIssue
                  /\ IssuePair("login", user, users, outcomes, request)
                  /\ UNCHANGED users

login(outcomes) ==
    \E email \in Emails \cup {""}, password \in Passwords :
        LET request == [email |-> email, password |-> password] IN
        IF email = ""
        THEN /\ FailOn("login", 400, "Missing email or password", request)
             /\ UNCHANGED <<users, rows, held>>
        ELSE LET user == get_user_by_email(users, email) IN
             IF user = None \/ ~verify_password(password, users[user].hashed_password)
             THEN /\ FailOn("login", 401, "Invalid credentials", request)
                  /\ UNCHANGED <<users, rows, held>>
             ELSE /\ CanIssue
                  /\ IssuePair("login", user, users, outcomes, request)
                  /\ UNCHANGED users

\* What the session table holds for a token when it is presented (the
\* handler of refresh never looks)
RowState(R, token) ==
    IF \E i \in DOMAIN R : R[i].token = token /\ ~R[i].revoked THEN "active"
    ELSE IF \E i \in DOMAIN R : R[i].token = token THEN "revoked"
    ELSE "none"

\* refresh on the body field b
refresh_request(b, outcomes) ==
    LET request == [credentials |-> b.credentials, token |-> b.token,
                    row |-> RowState(rows, b.token)] IN
    IF ~b.credentials
    THEN /\ FailOn("refresh", 400, "Missing token", request)
         /\ UNCHANGED <<users, rows, held>>
    ELSE LET d == decode_token(b.token, now) IN
         IF ~d.ok
         THEN /\ FailOn("refresh", 401, "Invalid refresh token (jwt error)", request)
              /\ UNCHANGED <<users, rows, held>>
         ELSE IF Get(d.payload, "type") # "refresh"
         THEN /\ FailOn("refresh", 401, "Invalid refresh token", request)
              /\ UNCHANGED <<users, rows, held>>
         ELSE LET user_id == OrElse(Get(d.payload, "sub"), Get(d.payload, "user_id")) IN
              IF user_id = None
              THEN /\ FailOn("refresh", 401, "Invalid token payload", request)
                   /\ UNCHANGED <<users, rows, held>>
              ELSE IF get_user(users, user_id) = None
              THEN /\ FailOn("refresh", 404, "User not found", request)
                   /\ UNCHANGED <<users, rows, held>>
              ELSE /\ CanIssue
                   /\ IssuePair("refresh", user_id, users, outcomes, request)
                   /\ UNCHANGED users

refresh_consults_registry(outcomes) ==
    \E b \in Bearers :
        IF b.credentials /\ RowState(rows, b.token) # "active"
        THEN /\ FailOn("refresh", 401, "Invalid refresh token",
                       [credentials |-> b.credentials, token |-> b.token,
                        row |-> RowState(rows, b.token)])
             /\ UNCHANGED <<users, rows, held>>
        ELSE refresh_request(b, outcomes)

refresh(outcomes) == \E b \in Bearers : refresh_request(b, outcomes)

\* The bodies a client may post to /logout: none, an empty object, or a
\* token under either accepted field name.
LogoutBodies ==
    {[sent |-> FALSE, fields |-> <<>>], [sent |-> TRUE, fields |-> <<>>]}
    \cup {[sent |-> TRUE, fields |-> [refresh |-> b.token]] :
             b \in {x \in Bearers : x.credentials}}
    \cup {[sent |-> TRUE, fields |-> [refresh_token |-> b.token]] :
             b \in {x \in Bearers : x.credentials}}

\* (body or {}).get("refresh") or (body or {}).get("refresh_token")
body_token(body) ==
    IF "refresh" \in DOMAIN body.fields
    THEN [given |-> TRUE, token |-> body.fields["refresh"]]
    ELSE IF "refresh_token" \in DOMAIN body.fields
    THEN [given |-> TRUE, token |-> body.fields["refresh_token"]]
    ELSE [given |-> FALSE, token |-> ForgedToken]

logout_unguarded(failures, locked) ==
    \E body \in LogoutBodies :
        LET t == body_token(body)
            matched == IF t.given
                       THEN {i \in DOMAIN rows : rows[i].token = t.token
                                                 /\ ~rows[i].revoked}
                       ELSE {}
        IN \E failed \in (IF t.given THEN failures ELSE {FALSE}) :
            /\ matched \cap locked = {}
            /\ rows' = IF t.given /\ ~failed
                       THEN revoke_refresh_token(rows, t.token) ELSE rows
            /\ resp' = [op |-> "logout", status |-> IF failed THEN 500 ELSE 200,
                        ok |-> ~failed,
                        body |-> body, failed |-> failed, matched |-> matched]
            /\ UNCHANGED <<users, held>>

\* `failures` are the outcomes of the revocation write the specification lets
\* happen (TRUE: it raised, which the handler swallows).  `locked` are the
\* rows another open transaction holds: the UPDATE waits for them (none when
\* requests do not overlap).  `matched` are the rows the UPDATE matches.
logout(failures, locked) ==
    \E body \in LogoutBodies :
        LET t == body_token(body)
            matched == IF t.given
                       THEN {i \in DOMAIN rows : rows[i].token = t.token
                                                 /\ ~rows[i].revoked}
                       ELSE {}
        IN \E failed \in (IF t.given THEN failures ELSE {FALSE}) :
            /\ matched \cap locked = {}
            /\ rows' = IF t.given /\ ~failed
                       THEN revoke_refresh_token(rows, t.token) ELSE rows
            /\ resp' = [op |-> "logout", status |-> 200, ok |-> TRUE,
                        body |-> body, failed |-> failed, matched |-> matched]
            /\ UNCHANGED <<users, held>>

(* app/api/routers/users.py GET /me behind a guard; `impl` picks the      *)
(* module the guard is imported from.                                      *)
me(impl) ==
    \E b \in Bearers :
        LET g == get_current_user(impl, b.credentials, b.token, now, users) IN
        /\ resp' = [op |-> "me", guard |-> impl, bearer |-> b, time |-> now,
                    status |-> g.status, detail |-> g.detail,
                    user_id |-> g.user_id,
                    email |-> IF g.status = 200 THEN users[g.user_id].email ELSE "",
                    role |-> IF g.status = 200 THEN users[g.user_id].role ELSE ""]
        /\ UNCHANGED <<users, rows, held>>

Others == <<props, nextPropId, now, ticks, txn>>

Next ==
    \/ register({TRUE}) /\ UNCHANGED Others
    \/ login({TRUE}) /\ UNCHANGED Others
    \/ refresh({TRUE}) /\ UNCHANGED Others
    \/ logout({FALSE}, {}) /\ UNCHANGED Others
    \/ me("api") /\ UNCHANGED Others
    \/ me("core") /\ UNCHANGED Others
    \/ Tick(ExpirySteps, MaxTicks)

Spec == Init /\ [][Next]_vars

\* C3: on a protected operation, a bearer credential that is not a valid,
\* unexpired access-type token (absent, forged, expired, or a refresh token
\* returned by login) is answered 401 and resolves no identity.
C3_OnlyAccessTokensAuthenticate ==
    resp.op = "me" =>
        (~(resp.bearer.credentials
           /\ verify_access_token(resp.bearer.token, resp.time).ok)
         => (resp.status = 401 /\ resp.user_id = None))

\* C4: the access token returned by register, login or refresh, presented
\* before it expires, is resolved by the guard of either module to the identity
\* it was issued to, and the profile operation answers with that identity.
C4_AccessTokenResolvesToOwner ==
    resp.op = "me" =>
        \A h \in held :
            (/\ h.by = "create_access_token"
             /\ resp.bearer.credentials
             /\ resp.bearer.token = h.tok
             /\ resp.time < h.at + ACCESS_TOKEN_EXPIRE_MINUTES)
            => /\ resp.status = 200
               /\ resp.user_id = h.data.user_id
               /\ resp.email = users[h.data.user_id].email

\* C13: revoke_refresh_token(t) is idempotent and needs no matching row: on
\* a token with no row, or whose row is already revoked, it changes no row,
\* and applying it twice leaves the same table as applying it once.
C13_RevokeIdempotent ==
    \A b \in Bearers :
        LET once == revoke_refresh_token(rows, b.token) IN
        /\ revoke_refresh_token(once, b.token) = once
        /\ (\A i \in DOMAIN rows : rows[i].token = b.token => rows[i].revoked)
              => once = rows
        /\ \A i \in DOMAIN rows :
              once[i] = IF rows[i].token = b.token
                        THEN [rows[i] EXCEPT !.revoked = TRUE] ELSE rows[i]

\* logout was called with a token whose row was revoked before, while another
\* row is active
C13_Witness ==
    /\ resp.op = "logout" /\ ~resp.failed /\ resp.matched = {}
    /\ body_token(resp.body).given
    /\ \E i \in DOMAIN rows : /\ rows[i].token = body_token(resp.body).token
                              /\ rows[i].revoked
    /\ \E j \in DOMAIN rows : ~rows[j].revoked

\* A presented token that fails verification under both secrets, is expired,
\* or is not of the refresh type
NotARefreshToken(token, t) ==
    \/ token.sig \notin {JWT_SECRET_KEY, JWT_REFRESH_SECRET_KEY}
    \/ token.claims.exp < t
    \/ token.claims.type # "refresh"

\* C15: refresh answers 401, mints no token and changes no row of
\* user_refresh_tokens whenever the presented token fails verification under
\* both secrets, is expired, or has a type other than refresh; a valid access
\* token is never exchanged for a new pair.
C15_RefreshNeedsRefreshToken ==
    [][ (/\ resp'.op = "refresh"
         /\ now' = now
         /\ resp'.request.credentials
         /\ NotARefreshToken(resp'.request.token, now))
        => /\ resp'.status = 401
           /\ rows' = rows
           /\ held' = held
           /\ users' = users
      ]_vars

\* a valid access token of a registered user was presented to refresh and
\* refused
C15_Witness ==
    /\ resp.op = "refresh" /\ resp.status = 401
    /\ resp.request.credentials
    /\ verify_access_token(resp.request.token, now).ok
    /\ \E h \in held : h.tok = resp.request.token /\ h.data.user_id \in DOMAIN users

\* C16: refresh does not consult the session table: an unexpired refresh
\* token whose row is revoked (by logout, or by a later login or refresh) is
\* accepted; refresh mints a new pair and stores a new active row for that
\* identity.
C16_RevokedTokenStillRefreshes ==
    [][ (/\ resp'.op = "refresh"
         /\ now' = now
         /\ resp'.request.credentials
         /\ ~NotARefreshToken(resp'.request.token, now)
         /\ RowState(rows, resp'.request.token) = "revoked"
         /\ resp'.request.token.claims.user_id \in DOMAIN users)
        => /\ resp'.status = 200
           /\ resp'.user_id = resp'.request.token.claims.user_id
           /\ verify_access_token(resp'.access_token, now).ok
           /\ resp'.saved =>
                 \E j \in DOMAIN rows' \ DOMAIN rows :
                     /\ rows'[j].user_id = resp'.user_id
                     /\ rows'[j].token = resp'.refresh_token
                     /\ ~rows'[j].revoked
      ]_vars

\* the token presented was revoked when it was presented, and the answer is
\* a new pair with an active row
C16_Witness ==
    /\ resp.op = "refresh" /\ resp.status = 200 /\ resp.saved
    /\ resp.request.row = "revoked"
    /\ \E j \in DOMAIN rows : /\ rows[j].user_id = resp.user_id
                              /\ rows[j].token = resp.refresh_token
                              /\ ~rows[j].revoked

\* The stored identities an email and password match
Matching(U, email, password) ==
    {u \in DOMAIN U : /\ U[u].email = email
                      /\ U[u].hashed_password = get_password_hash(password)}

\* C18: login with an email and password that match no stored identity
\* answers 401 "Invalid credentials", the same whether the email is unknown
\* or the password is wrong; no token is issued and no row of
\* user_refresh_tokens is created or revoked.
C18_BadLoginIsGeneric ==
    [][ (/\ resp'.op = "login"
         /\ now' = now
         /\ resp'.request.email # ""
         /\ Matching(users, resp'.request.email, resp'.request.password) = {})
        => /\ resp'.status = 401
           /\ resp'.detail = "Invalid credentials"
           /\ DOMAIN resp' = {"op", "status", "detail", "request"}
           /\ rows' = rows
           /\ held' = held
           /\ users' = users
      ]_vars

\* a wrong password for a known email while that identity has an active
\* session, in a state where another email is unknown
C18_Witness ==
    /\ resp.op = "login" /\ resp.status = 401
    /\ get_user_by_email(users, resp.request.email) # None
    /\ ActiveRows(rows, get_user_by_email(users, resp.request.email)) # {}
    /\ \E e \in Emails : get_user_by_email(users, e) = None

\* C22: rows of user_refresh_tokens are never deleted and revocation is
\* monotone: over register, login, refresh and logout a row that exists stays
\* in the table with its user and token, and a revoked row never becomes
\* active again.
C22_RowsKeptRevocationMonotone ==
    [][ /\ Len(rows') >= Len(rows)
        /\ \A i \in DOMAIN rows :
              /\ rows'[i].user_id = rows[i].user_id
              /\ rows'[i].token = rows[i].token
              /\ rows[i].revoked => rows'[i].revoked
      ]_vars

\* a refresh superseded an earlier session of the same identity: the old row
\* is still there, revoked, beside the new active one
C22_Witness ==
    /\ resp.op = "refresh" /\ resp.status = 200
    /\ \E i, j \in DOMAIN rows :
          /\ i < j
          /\ rows[i].user_id = resp.user_id /\ rows[i].revoked
          /\ rows[j].user_id = resp.user_id /\ ~rows[j].revoked

-----------------------------------------------------------------------------
(* The same handlers when a write of the session table may raise.          *)

NextFault ==
    \/ register(BOOLEAN) /\ UNCHANGED Others
    \/ login(BOOLEAN) /\ UNCHANGED Others
    \/ refresh(BOOLEAN) /\ UNCHANGED Others
    \/ logout(BOOLEAN, {}) /\ UNCHANGED Others

SpecFault == Init /\ [][NextFault]_vars

\* C14: logout answers success for every input: no body, a body without a
\* token, an unknown or already-revoked token, and when the revocation write
\* fails; when the token has an active row and the write succeeds, that row
\* is revoked afterwards.
C14_LogoutAlwaysSucceeds ==
    resp.op = "logout" =>
        /\ resp.status = 200 /\ resp.ok
        /\ ~resp.failed => \A i \in resp.matched : rows[i].revoked
        /\ (body_token(resp.body).given /\ ~resp.failed) =>
              \A i \in DOMAIN rows :
                  rows[i].token = body_token(resp.body).token => rows[i].revoked

\* the revocation write failed on a token whose row is active: the answer is
\* still success and the row is still active
C14_Witness ==
    /\ resp.op = "logout" /\ resp.status = 200 /\ resp.failed
    /\ resp.matched # {}
    /\ \A i \in resp.matched : ~rows[i].revoked

-----------------------------------------------------------------------------
(* Concurrent requests.  Each request runs in its own database session     *)
(* (app/db/session.py get_db), so the statements of save_refresh_token run *)
(* in a transaction of their own: the UPDATE locks the rows it matches and *)
(* its effect, like the INSERT's, becomes visible to other sessions at     *)
(* commit.  Every `await` is a point where another request may run.        *)

LockedByOthers(p) ==
    UNION {txn[q].locked : q \in {r \in Procs \ {p} : txn[r].pc = "commit"}}

\* login up to line 82: credentials checked, the pair minted
login_start(p) ==
    /\ txn[p].pc = "idle"
    /\ \E email \in Emails, password \in Passwords :
         LET user == get_user_by_email(users, email) IN
         IF user = None \/ ~verify_password(password, users[user].hashed_password)
         THEN /\ Fail("login", 401, "Invalid credentials")
              /\ UNCHANGED <<txn, held>>
         ELSE LET data == [user_id |-> user, role |-> users[user].role] IN
              /\ CanIssue
              /\ txn' = [txn EXCEPT ![p] =
                            [pc |-> "update", op |-> "login", user_id |-> user,
                             data |-> data,
                             access_token |-> create_access_token(data, now),
                             refresh_token |-> create_refresh_token(data, now)]]
              /\ UNCHANGED <<held, resp>>
    /\ UNCHANGED <<users, rows>>

\* register line 37: await get_user_by_email; the email is taken (400) or
\* the request goes on to create_user
register_start(p) ==
    /\ txn[p].pc = "idle"
    /\ \E email \in Emails :
         LET request == [email |-> email, password |-> "password"] IN
         IF get_user_by_email(users, email) # None
         THEN /\ FailOn("register", 400, "Email exists", request)
              /\ UNCHANGED txn
         ELSE /\ Len(users) < MaxUsers
              /\ CanIssue
              /\ txn' = [txn EXCEPT ![p] =
                            [pc |-> "insert", op |-> "register", request |-> request]]
              /\ UNCHANGED resp
    /\ UNCHANGED <<users, rows, held>>

\* register lines 41-51: create_user adds the row and commits; users.email is
\* unique, so the commit raises IntegrityError when the email was committed
\* by another request meanwhile, and nothing in register catches it (500).
\* Otherwise the pair is minted.
register_insert(p) ==
    /\ txn[p].pc = "insert"
    /\ IF get_user_by_email(users, txn[p].request.email) # None
       THEN /\ FailOn("register", 500, "Internal Server Error", txn[p].request)
            /\ txn' = [txn EXCEPT ![p] = Idle]
            /\ UNCHANGED users
       ELSE LET data == [user_id |-> Len(users) + 1, role |-> "user"] IN
            /\ Len(users) < MaxUsers
            /\ users' = create_user(users, txn[p].request.email,
                                    txn[p].request.password)
            /\ txn' = [txn EXCEPT ![p] =
                          [pc |-> "update", op |-> "register",
                           user_id |-> Len(users) + 1, data |-> data,
                           access_token |-> create_access_token(data, now),
                           refresh_token |-> create_refresh_token(data, now)]]
            /\ UNCHANGED resp
    /\ UNCHANGED <<rows, held>>

\* save_refresh_token lines 74-78: await db.execute(update(...)); a row
\* locked by another open transaction makes the statement wait.
save_update(p) ==
    /\ txn[p].pc = "update"
    /\ ActiveRows(rows, txn[p].user_id) \cap LockedByOthers(p) = {}
    /\ txn' = [txn EXCEPT ![p] =
                  [txn[p] EXCEPT !.pc = "commit"] @@
                  [locked |-> ActiveRows(rows, txn[p].user_id)]]
    /\ UNCHANGED <<users, rows, held, resp>>

\* save_refresh_token lines 80-81: db.add(row); await db.commit(); then the
\* handler returns the pair.
save_commit(p) ==
    /\ txn[p].pc = "commit"
    /\ Len(rows) < MaxSessions
    /\ rows' = InsertRow([i \in DOMAIN rows |->
                             IF i \in txn[p].locked
                             THEN [rows[i] EXCEPT !.revoked = TRUE] ELSE rows[i]],
                         txn[p].user_id, txn[p].refresh_token)
    /\ held' = held \cup Handout(txn[p].data, txn[p].access_token,
                                 txn[p].refresh_token, now)
    /\ resp' = [op |-> txn[p].op, status |-> 200, user_id |-> txn[p].user_id,
                access_token |-> txn[p].access_token,
                refresh_token |-> txn[p].refresh_token, saved |-> TRUE]
    /\ txn' = [txn EXCEPT ![p] = Idle]
    /\ UNCHANGED users

OthersConc == <<props, nextPropId, now, ticks>>

NextConc ==
    \/ \E p \in Procs : login_start(p) /\ UNCHANGED OthersConc
    \/ \E p \in Procs : save_update(p) /\ UNCHANGED OthersConc
    \/ \E p \in Procs : save_commit(p) /\ UNCHANGED OthersConc
    \/ \E p \in Procs : register_start(p) /\ UNCHANGED OthersConc
    \/ \E p \in Procs : register_insert(p) /\ UNCHANGED OthersConc
    \/ logout({FALSE}, LockedByOthers(0)) /\ UNCHANGED <<txn>> /\ UNCHANGED OthersConc

SpecConc == Init /\ [][NextConc]_vars

\* C1: in every reachable state, under every interleaving of concurrent
\* requests for one identity, at most one row of user_refresh_tokens per
\* user_id has revoked = FALSE.
C1_AtMostOneActiveSession ==
    \A u \in DOMAIN users : Cardinality(ActiveRows(rows, u)) <= 1

\* C2: when save_refresh_token(X, t) completes, exactly one row with
\* user_id = X has revoked = FALSE, and that row holds t.
C2_SaveLeavesExactlyTheNewRow ==
    (resp.op \in {"register", "login", "refresh"} /\ resp.status = 200 /\ resp.saved) =>
        /\ Cardinality(ActiveRows(rows, resp.user_id)) = 1
        /\ \A i \in ActiveRows(rows, resp.user_id) : rows[i].token = resp.refresh_token

\* C17: register with an email that is already registered, also when
\* another register for that email commits between this request's existence
\* check and its insert, answers the conflict ("Email exists"), returns no
\* tokens and creates no second identity; no two identities share an email.
C17_DuplicateEmailConflicts ==
    /\ \A u, v \in DOMAIN users : users[u].email = users[v].email => u = v
    /\ (resp.op = "register" /\ resp.status # 200) =>
          /\ resp.status = 400
          /\ resp.detail = "Email exists"

-----------------------------------------------------------------------------
(* app/db/crud_properties.py.  A listing row keeps the columns the         *)
(* moderation and ownership rules read, and title for the content columns. *)

NoTime == -1    \* approved_at IS NULL

get_property(P, prop_id) == IF prop_id \in DOMAIN P THEN prop_id ELSE None

\* Property(**kwargs) with the column defaults of app/db/models.py; the
\* approval_status default applies when the caller passed none.
create_property(P, id, kwargs) ==
    P @@ (id :> [host_id |-> kwargs.host_id,
                 title |-> kwargs.title,
                 city |-> kwargs.city,
                 is_active |-> TRUE,
                 approval_status |-> IF kwargs.approval_status = ""
                                     THEN "pending" ELSE kwargs.approval_status,
                 approved_at |-> NoTime,
                 approved_by_admin_id |-> None])

\* setattr for every key of data whose value is not None ("" stands for None)
update_property(P, id, data) ==
    [P EXCEPT ![id] = [k \in DOMAIN @ |->
                          IF k \in DOMAIN data /\ data[k] # "" THEN data[k]
                          ELSE @[k]]]

delete_property(P, id) == [i \in DOMAIN P \ {id} |-> P[i]]

approve_property_keep_stamp(P, id, admin_id, t) ==
    [P EXCEPT ![id] = [@ EXCEPT !.approval_status = "approved",
                                !.approved_at = IF @ = NoTime THEN t ELSE @,
                                !.approved_by_admin_id = admin_id]]

approve_property(P, id, admin_id, t) ==
    [P EXCEPT ![id] = [@ EXCEPT !.approval_status = "approved",
                                !.approved_at = t,
                                !.approved_by_admin_id = admin_id]]

reject_property_keep_stamp(P, id, admin_id) ==
    [P EXCEPT ![id] = [@ EXCEPT !.approval_status = "rejected",
                                !.approved_by_admin_id = admin_id]]

reject_property(P, id, admin_id) ==
    [P EXCEPT ![id] = [@ EXCEPT !.approval_status = "rejected",
                                !.approved_at = NoTime,
                                !.approved_by_admin_id = admin_id]]

\* The ids of a set, highest first (ORDER BY id DESC)
RECURSIVE IdDesc(_)
IdDesc(S) ==
    IF S = {} THEN <<>>
    ELSE LET m == CHOOSE x \in S : \A y \in S : y <= x
         IN <<m>> \o IdDesc(S \ {m})

list_properties_any_status(P, filters, page, per_page) ==
    LET match == {i \in DOMAIN P :
                     /\ P[i].is_active
                     /\ (filters.city # "" => P[i].city = filters.city)}
        all == IdDesc(match)
        offset == (page - 1) * per_page
        last == IF offset + per_page < Len(all) THEN offset + per_page ELSE Len(all)
    IN [items |-> SubSeq(all, offset + 1, last), total |-> Len(all)]

\* list_properties: is_active and approved, then the filters the request
\* gave ("" stands for a filter that is not given), recent first, one page
list_properties(P, filters, page, per_page) ==
    LET match == {i \in DOMAIN P :
                     /\ P[i].is_active
                     /\ P[i].approval_status = "approved"
                     /\ (filters.city # "" => P[i].city = filters.city)}
        all == IdDesc(match)
        offset == (page - 1) * per_page
        last == IF offset + per_page < Len(all) THEN offset + per_page ELSE Len(all)
    IN [items |-> SubSeq(all, offset + 1, last), total |-> Len(all)]

\* list_cities: {city, count} over the active, approved listings with a city
list_cities(P) ==
    LET counted == {i \in DOMAIN P : /\ P[i].city # ""
                                     /\ P[i].is_active
                                     /\ P[i].approval_status = "approved"}
    IN {[city |-> c, count |-> Cardinality({i \in counted : P[i].city = c})] :
           c \in {P[i].city : i \in counted}}

\* update_user_role, for a user that exists
update_user_role(U, user_id, role) == [U EXCEPT ![user_id].role = role]

-----------------------------------------------------------------------------
(* app/api/routers/host.py and admin.py.  Every handler is given the       *)
(* bearer credential of the request; host.py and admin.py import the guard *)
(* of app/api/dependencies.py.                                             *)

Titles == {"Room", "Flat"}
PropIds == 1..(MaxProps + 1)

\* The keyword arguments host.py create_property builds from the form: the
\* handler declares no approval_status field, so one sent by the client is
\* dropped, and "pending" is passed.
create_kwargs_from_request(form, current_user) ==
    [host_id |-> current_user, title |-> form.title, city |-> form.city,
     approval_status |-> form.approval_status]

create_kwargs(form, current_user) ==
    [host_id |-> current_user, title |-> form.title, city |-> form.city,
     approval_status |-> "pending"]

\* The forms a client posts; approval_status is a field the handler does not
\* declare.
CreateForms == [title : {"Room"}, city : {"Pune"}, approval_status : {"", "approved"}]

host_create(forms) ==
    \E b \in AccessBearers, form \in forms :
        LET g == api_get_current_user(b.credentials, b.token, now, users) IN
        IF g.status # 200
        THEN /\ resp' = [op |-> "create_property", status |-> g.status,
                         caller |-> None, supplied |-> form.approval_status,
                         prop_id |-> None]
             /\ UNCHANGED <<props, nextPropId>>
        ELSE /\ nextPropId <= MaxProps
             /\ props' = create_property(props, nextPropId, create_kwargs(form, g.user_id))
             /\ nextPropId' = nextPropId + 1
             /\ resp' = [op |-> "create_property", status |-> 200,
                         caller |-> g.user_id, supplied |-> form.approval_status,
                         prop_id |-> nextPropId]

host_create_property == host_create(CreateForms)

\* The data dict update_property builds from the form
\* The form of an update request: a field left out arrives as None ("")
UpdateData == [title |-> "Flat", city |-> ""]

UpdateForms == [title : {"", "Flat"}, city : {"", "Goa"}]

update_data_resubmitting(form) ==
    [title |-> form.title, city |-> form.city, approval_status |-> "pending"]

\* the dict the update handler passes to crud: the content fields only
update_data(form) == [title |-> form.title, city |-> form.city]

\* update_property and delete_property_host: 404, then owner-or-admin, then
\* the write
host_write_data(op, forms) ==
    \E b \in AccessBearers, prop_id \in PropIds, form \in forms :
        LET g == api_get_current_user(b.credentials, b.token, now, users)
            status == IF g.status # 200 THEN g.status
                      ELSE IF get_property(props, prop_id) = None THEN 404
                      ELSE IF props[prop_id].host_id # g.user_id
                              /\ users[g.user_id].role # "admin" THEN 403
                      ELSE 200
        IN /\ props' = IF status # 200 THEN props
                       ELSE IF op = "update_property"
                            THEN update_property(props, prop_id, update_data(form))
                            ELSE delete_property(props, prop_id)
           /\ resp' = [op |-> op, status |-> status, caller |-> g.user_id,
                       prop_id |-> prop_id]
           /\ UNCHANGED nextPropId

host_write_any_caller(op) ==
    \E b \in AccessBearers, prop_id \in PropIds :
        LET g == api_get_current_user(b.credentials, b.token, now, users)
            status == IF g.status # 200 THEN g.status
                      ELSE IF get_property(props, prop_id) = None THEN 404
                      ELSE 200
        IN /\ props' = IF status # 200 THEN props
                       ELSE IF op = "update_property"
                            THEN update_property(props, prop_id, update_data(UpdateData))
                            ELSE delete_property(props, prop_id)
           /\ resp' = [op |-> op, status |-> status, caller |-> g.user_id,
                       prop_id |-> prop_id]
           /\ UNCHANGED nextPropId

\* the two handlers with the one update form the moderation runs send
host_write(op) == host_write_data(op, {UpdateData})

host_update_property == host_write("update_property")

host_delete_property == host_write("delete_property")

admin_moderate_lenient(op) ==
    \E b \in AccessBearers, prop_id \in PropIds :
        LET g0 == api_get_current_user(b.credentials, b.token, now, users)
            g == require_role("admin", g0, users)
            found == get_property(props, prop_id) # None
            status == g.status
            after == IF status # 200 \/ ~found THEN props
                     ELSE IF op = "approve"
                          THEN approve_property(props, prop_id, g.user_id, now)
                          ELSE reject_property(props, prop_id, g.user_id)
        IN /\ props' = after
           /\ resp' = [op |-> op, status |-> status, caller |-> g0.user_id,
                       prop_id |-> prop_id,
                       prior |-> IF found THEN props[prop_id].approval_status
                                 ELSE "absent",
                       data |-> IF status = 200 /\ found THEN after[prop_id]
                                ELSE None]
           /\ UNCHANGED nextPropId

\* admin_approve_property / admin_reject_property:
\* Depends(require_role("admin")), then the crud call, 404 when it returns
\* None, else the refreshed row as "data"
admin_moderate(op) ==
    \E b \in AccessBearers, prop_id \in PropIds :
        LET g0 == api_get_current_user(b.credentials, b.token, now, users)
            g == require_role("admin", g0, users)
            found == get_property(props, prop_id) # None
            status == IF g.status # 200 THEN g.status
                      ELSE IF ~found THEN 404 ELSE 200
            after == IF status # 200 THEN props
                     ELSE IF op = "approve"
                          THEN approve_property(props, prop_id, g.user_id, now)
                          ELSE reject_property(props, prop_id, g.user_id)
        IN /\ props' = after
           /\ resp' = [op |-> op, status |-> status, caller |-> g0.user_id,
                       prop_id |-> prop_id,
                       prior |-> IF found THEN props[prop_id].approval_status
                                 ELSE "absent",
                       data |-> IF status = 200 THEN after[prop_id] ELSE None]
           /\ UNCHANGED nextPropId

admin_set_role_unchecked(targets, roles) ==
    \E b \in AccessBearers, user_id \in targets, role \in roles :
        LET g0 == api_get_current_user(b.credentials, b.token, now, users)
            g == require_role("admin", g0, users)
            status == IF g.status # 200 THEN g.status
                      ELSE IF get_user(users, user_id) = None THEN 500
                      ELSE 200
        IN /\ users' = IF status = 200 THEN update_user_role(users, user_id, role)
                       ELSE users
           /\ resp' = [op |-> "set_role", status |-> status, caller |-> g0.user_id,
                       user_id |-> user_id, role |-> role]

admin_set_role_open(targets, roles) ==
    \E b \in AccessBearers, user_id \in targets, role \in roles :
        LET g0 == api_get_current_user(b.credentials, b.token, now, users)
            status == IF g0.status # 200 THEN g0.status
                      ELSE IF role \notin Roles THEN 400
                      ELSE IF get_user(users, user_id) = None THEN 500
                      ELSE 200
        IN /\ users' = IF status = 200 THEN update_user_role(users, user_id, role)
                       ELSE users
           /\ resp' = [op |-> "set_role", status |-> status, caller |-> g0.user_id,
                       user_id |-> user_id, role |-> role]

\* set_role: Depends(require_role("admin")), 400 on a role outside the list,
\* update_user_role raises ValueError on an unknown user (500).  `targets`
\* and `roles` are the path and body values the specification sends.
admin_set_role(targets, roles) ==
    \E b \in AccessBearers, user_id \in targets, role \in roles :
        LET g0 == api_get_current_user(b.credentials, b.token, now, users)
            g == require_role("admin", g0, users)
            status == IF g.status # 200 THEN g.status
                      ELSE IF role \notin {"user", "host", "admin"} THEN 400
                      ELSE IF get_user(users, user_id) = None THEN 500
                      ELSE 200
        IN /\ users' = IF status = 200 THEN update_user_role(users, user_id, role)
                       ELSE users
           /\ resp' = [op |-> "set_role", status |-> status, caller |-> g0.user_id,
                       user_id |-> user_id, role |-> role]

role_gate_by_claim(impl) ==
    \E b \in AccessBearers, role \in Roles :
        LET g0 == get_current_user(impl, b.credentials, b.token, now, users)
            claimed == Get(b.token.claims, "role")
            status == IF g0.status # 200 THEN g0.status
                      ELSE IF claimed # role /\ claimed # "admin" THEN 403
                      ELSE 200
        IN resp' = [op |-> "require_role", guard |-> impl, required |-> role,
                    status |-> status, caller |-> g0.user_id,
                    caller_role |-> IF g0.status = 200 THEN users[g0.user_id].role
                                    ELSE "",
                    token |-> b.token]

\* A dependency require_role(role) of either module, run on a request
role_gate(impl) ==
    \E b \in AccessBearers, role \in Roles :
        LET g0 == get_current_user(impl, b.credentials, b.token, now, users)
            g == require_role(role, g0, users)
        IN resp' = [op |-> "require_role", guard |-> impl, required |-> role,
                    status |-> g.status, caller |-> g0.user_id,
                    caller_role |-> IF g0.status = 200 THEN users[g0.user_id].role
                                    ELSE "",
                    token |-> b.token]

\* The state after alice registered and the admin logged in, both at
\* start-up: the moderation handlers are exercised from here.
AliceData == [user_id |-> 2, role |-> "user"]
AdminData == [user_id |-> 1, role |-> "admin"]

InitMod ==
    /\ users = create_user(SeedUsers, "alice@example.com", "password")
    /\ rows = save_refresh_token(
                 save_refresh_token(<<>>, 2, create_refresh_token(AliceData, 0)),
                 1, create_refresh_token(AdminData, 0))
    /\ held = Handout(AliceData, create_access_token(AliceData, 0),
                      create_refresh_token(AliceData, 0), 0)
              \cup Handout(AdminData, create_access_token(AdminData, 0),
                           create_refresh_token(AdminData, 0), 0)
    /\ props = <<>>
    /\ nextPropId = 1
    /\ now = 0
    /\ ticks = 0
    /\ resp = NoResp
    /\ txn = [p \in Procs |-> Idle]

OthersMod == <<rows, held, now, ticks, txn>>

NextMod ==
    \/ host_create_property /\ UNCHANGED users /\ UNCHANGED OthersMod
    \/ host_update_property /\ UNCHANGED users /\ UNCHANGED OthersMod
    \/ host_delete_property /\ UNCHANGED users /\ UNCHANGED OthersMod
    \/ admin_moderate("approve") /\ UNCHANGED users /\ UNCHANGED OthersMod
    \/ admin_moderate("reject") /\ UNCHANGED users /\ UNCHANGED OthersMod
    \/ admin_set_role({2}, {"user", "admin"})
          /\ UNCHANGED <<props, nextPropId>> /\ UNCHANGED OthersMod

SpecMod == InitMod /\ [][NextMod]_vars

\* The moderation calls with the clock running
NextStamp ==
    \/ host_create_property /\ UNCHANGED users /\ UNCHANGED OthersMod
    \/ admin_moderate("approve") /\ UNCHANGED users /\ UNCHANGED OthersMod
    \/ admin_moderate("reject") /\ UNCHANGED users /\ UNCHANGED OthersMod
    \/ admin_set_role({2}, {"user", "admin"})
          /\ UNCHANGED <<props, nextPropId>> /\ UNCHANGED OthersMod
    \/ Tick({1}, MaxModTicks)

SpecStamp == InitMod /\ [][NextStamp]_vars

\* The role dependency on its own, with every role change
NextGate ==
    \/ role_gate("api") /\ UNCHANGED <<users, props, nextPropId>> /\ UNCHANGED OthersMod
    \/ role_gate("core") /\ UNCHANGED <<users, props, nextPropId>> /\ UNCHANGED OthersMod
    \/ admin_set_role(1..(Len(users) + 1), Roles \cup {"owner"})
          /\ UNCHANGED <<props, nextPropId>> /\ UNCHANGED OthersMod

SpecGate == InitMod /\ [][NextGate]_vars

\* C7: require_role(r) admits an authenticated identity u iff u.role = r or
\* u.role = admin, and otherwise answers 403; so require_role("host") admits
\* an admin and require_role("admin") admits only admins.
C7_RoleOrAdmin ==
    /\ \A u \in DOMAIN users, r \in Roles :
          require_role(r, Resolved(u), users).status =
              IF users[u].role = r \/ users[u].role = "admin" THEN 200 ELSE 403
    /\ (resp.op = "require_role" /\ resp.caller # None) =>
          /\ resp.status = 200 <=>
                (resp.caller_role = resp.required \/ resp.caller_role = "admin")
          /\ resp.status # 200 => resp.status = 403

C7_Witness ==
    /\ resp.op = "require_role" /\ resp.required = "host"
    /\ resp.caller_role = "admin" /\ resp.status = 200
    /\ \E u \in DOMAIN users :
          /\ users[u].role = "host"
          /\ require_role("admin", Resolved(u), users).status = 403
          /\ require_role("host", Resolved(u), users).status = 200

\* C26: role checks use the role stored for the identity at the time of the
\* request, not the role claim of the token: after set_role took admin from
\* X, an unexpired access token issued while X was admin no longer passes
\* require_role("admin"), and after set_role made X admin a token issued
\* before passes.
C26_StoredRoleDecides ==
    /\ \A h \in held :
          (/\ h.by = "create_access_token"
           /\ decode_token(h.tok, now).ok
           /\ get_user(users, h.data.user_id) # None) =>
              LET g == require_role("admin",
                                    api_get_current_user(TRUE, h.tok, now, users),
                                    users)
              IN /\ g.status = 200 <=> users[h.data.user_id].role = "admin"
                 /\ g.status # 200 => g.status = 403
    /\ (resp.op = "require_role" /\ resp.caller # None /\ resp.required = "admin") =>
          (resp.status = 200 <=> resp.caller_role = "admin")

\* a token minted for an admin was refused after the demotion, while the
\* token another identity got as a plain user now belongs to an admin
C26_Witness ==
    /\ resp.op = "require_role" /\ resp.required = "admin"
    /\ resp.caller # None
    /\ Get(resp.token.claims, "role") = "admin"
    /\ resp.caller_role = "user"
    /\ resp.status = 403
    /\ \E h \in held :
          /\ h.by = "create_access_token"
          /\ h.data.role = "user"
          /\ users[h.data.user_id].role = "admin"

ModerationFields(row) ==
    <<row.approval_status, row.approved_at, row.approved_by_admin_id>>

\* C8: approve and reject by an identity whose role is not admin answer 403
\* and leave the listing unchanged; a listing's approval_status, approved_at
\* and approved_by_admin_id change only in an approve or reject performed by
\* an identity that is admin at that moment.
C8_ModerationIsAdminOnly ==
    [][ /\ \A id \in DOMAIN props \cap DOMAIN props' :
              ModerationFields(props'[id]) # ModerationFields(props[id]) =>
                  /\ resp'.op \in {"approve", "reject"}
                  /\ resp'.status = 200
                  /\ resp'.prop_id = id
                  /\ resp'.caller # None
                  /\ users[resp'.caller].role = "admin"
        /\ (/\ resp'.op \in {"approve", "reject"}
            /\ resp'.caller # None
            /\ users[resp'.caller].role # "admin")
           => (resp'.status = 403 /\ props' = props)
      ]_vars

C8_Witness ==
    /\ resp.op = "approve" /\ resp.status = 403
    /\ resp.caller # None /\ users[resp.caller].role # "admin"
    /\ resp.prop_id \in DOMAIN props
    /\ props[resp.prop_id].approval_status = "rejected"

\* C9: every listing created through create_property is pending right after
\* its creation, also when the request supplies another approval_status.
C9_CreatedPending ==
    (resp.op = "create_property" /\ resp.status = 200) =>
        /\ resp.prop_id \in DOMAIN props
        /\ props[resp.prop_id].approval_status = "pending"
        /\ props[resp.prop_id].approved_at = NoTime

C9_Witness ==
    /\ resp.op = "create_property" /\ resp.status = 200
    /\ resp.supplied = "approved"
    /\ props[resp.prop_id].approval_status = "pending"

-----------------------------------------------------------------------------
(* app/api/routers/properties.py: the public queries.  None of them is     *)
(* behind the guard.                                                       *)

SearchForms == [title : {"Room"}, city : {"Pune", "Goa"}, approval_status : {""}]

Filters == [city : {"", "Pune", "Goa"}]
Pages == {1, 2}
PerPages == {1, 20}

\* GET /properties
search_properties ==
    \E filters \in Filters, page \in Pages, per_page \in PerPages :
        LET r == list_properties(props, filters, page, per_page) IN
        resp' = [op |-> "list_properties", status |-> 200, filters |-> filters,
                 page |-> page, per_page |-> per_page,
                 items |-> r.items, total |-> r.total]

\* GET /cities
get_cities ==
    resp' = [op |-> "list_cities", status |-> 200, cities |-> list_cities(props)]

\* GET /properties/{prop_id}: the row by id, 404 when there is none.  The
\* optional identity of the request only sets the contact flags.
get_property_detail ==
    \E prop_id \in PropIds, logged_in \in BOOLEAN :
        resp' = IF get_property(props, prop_id) = None
                THEN [op |-> "get_property_detail", status |-> 404,
                      prop_id |-> prop_id]
                ELSE [op |-> "get_property_detail", status |-> 200,
                      prop_id |-> prop_id, data |-> props[prop_id],
                      can_book |-> logged_in]

NextSearch ==
    \/ host_create(SearchForms) /\ UNCHANGED users /\ UNCHANGED OthersMod
    \/ admin_moderate("approve") /\ UNCHANGED users /\ UNCHANGED OthersMod
    \/ admin_moderate("reject") /\ UNCHANGED users /\ UNCHANGED OthersMod
    \/ host_delete_property /\ UNCHANGED users /\ UNCHANGED OthersMod
    \/ search_properties /\ UNCHANGED <<users, props, nextPropId>> /\ UNCHANGED OthersMod
    \/ get_cities /\ UNCHANGED <<users, props, nextPropId>> /\ UNCHANGED OthersMod
    \/ get_property_detail /\ UNCHANGED <<users, props, nextPropId>> /\ UNCHANGED OthersMod

SpecSearch == InitMod /\ [][NextSearch]_vars

Discoverable(P) == {i \in DOMAIN P : P[i].is_active /\ P[i].approval_status = "approved"}

Deactivated(P, i) == [P EXCEPT ![i].is_active = FALSE]

ItemsOf(r) == {r.items[k] : k \in DOMAIN r.items}

\* C12: the search results (list_properties, and the listings counted by
\* list_cities) hold a listing iff it is active, approved and matches the
\* filters; lookup by id returns every existing listing whatever its
\* approval_status.
C12_SearchShowsApprovedOnly ==
    /\ resp.op = "list_properties" =>
          LET M == {i \in Discoverable(props) :
                       resp.filters.city # "" => props[i].city = resp.filters.city}
          IN /\ resp.total = Cardinality(M)
             /\ ItemsOf(resp) \subseteq M
             /\ (resp.page = 1 /\ resp.per_page >= Cardinality(M)) => ItemsOf(resp) = M
    /\ resp.op = "list_cities" =>
          \A c \in {"Pune", "Goa"} :
              LET n == Cardinality({i \in Discoverable(props) : props[i].city = c})
              IN IF n = 0 THEN \A e \in resp.cities : e.city # c
                 ELSE [city |-> c, count |-> n] \in resp.cities
    /\ resp.op = "get_property_detail" =>
          /\ resp.status = 200 <=> resp.prop_id \in DOMAIN props
          /\ resp.status = 200 => resp.data = props[resp.prop_id]
    /\ \A i \in DOMAIN props :
          /\ get_property(props, i) = i
          /\ i \in ItemsOf(list_properties(props, [city |-> ""], 1, 20))
                <=> i \in Discoverable(props)
          /\ i \notin ItemsOf(list_properties(Deactivated(props, i), [city |-> ""], 1, 20))
          /\ \A e \in list_cities(Deactivated(props, i)) :
                e.count <= Cardinality(Discoverable(props) \ {i})

\* a rejected listing, answered by the lookup by id while no search shows it
C12_Witness ==
    /\ resp.op = "get_property_detail" /\ resp.status = 200
    /\ resp.data.approval_status = "rejected"
    /\ list_properties(props, [city |-> resp.data.city], 1, 20).total = 0
    /\ list_cities(props) = {}

-----------------------------------------------------------------------------
(* Tokens that outlive their identity.  No operation of the API deletes a  *)
(* user; a row of users can be deleted in the database, for which the      *)
(* schema declares ON DELETE CASCADE on user_refresh_tokens.user_id.       *)

\* DELETE FROM users WHERE id = <the newest id>, with the cascade
remove_user ==
    LET uid == Len(users)
        Kept(r) == r.user_id # uid
    IN /\ uid > 1
       /\ users' = SubSeq(users, 1, uid - 1)
       /\ rows' = SelectSeq(rows, Kept)
       /\ resp' = [op |-> "remove_user", status |-> 200, user_id |-> uid]
       /\ UNCHANGED held

NextOrphan ==
    \/ remove_user /\ UNCHANGED Others
    \/ me("api") /\ UNCHANGED Others
    \/ me("core") /\ UNCHANGED Others
    \/ refresh({TRUE}) /\ UNCHANGED Others
    \/ Tick(ExpirySteps, MaxTicks)

SpecOrphan == InitMod /\ [][NextOrphan]_vars

\* A correctly signed, unexpired token of the application
SignedAndUnexpired(token, t) ==
    /\ token.sig \in {JWT_SECRET_KEY, JWT_REFRESH_SECRET_KEY}
    /\ token.sig = JWT_SECRET_KEY <=> token.claims.type = "access"
    /\ ~(token.claims.exp < t)

\* C19: a correctly signed, unexpired token whose subject id matches no
\* stored identity is answered as an invalid token is: 401 with the generic
\* message, never 404 and never a "user not found" outcome, by the guard
\* (get_current_user) and by refresh.
C19_UnknownSubjectIsGeneric ==
    [][ /\ (/\ resp'.op = "me" /\ resp'.guard = "api"
            /\ now' = now /\ users' = users
            /\ resp'.bearer.credentials
            /\ SignedAndUnexpired(resp'.bearer.token, now)
            /\ resp'.bearer.token.claims.user_id \notin DOMAIN users)
           => (resp'.status = 401 /\ resp'.detail = "Invalid token")
        /\ (/\ resp'.op = "refresh"
            /\ now' = now /\ users' = users
            /\ resp'.request.credentials
            /\ ~NotARefreshToken(resp'.request.token, now)
            /\ resp'.request.token.claims.user_id \notin DOMAIN users)
           => (/\ resp'.status = 401
               /\ resp'.detail \in {"Invalid refresh token",
                                    "Invalid refresh token (jwt error)"})
      ]_vars

-----------------------------------------------------------------------------
\* C21: a host-side update or delete of an existing listing is performed only
\* when the caller's id is the listing's host_id or the caller's role is
\* admin; every other authenticated caller is answered 403 and the listing is
\* left unchanged and present.
C21_OwnerOrAdminWrites ==
    [][ /\ resp'.op \in {"update_property", "delete_property"} =>
              \A id \in DOMAIN props :
                  (id \notin DOMAIN props' \/ props'[id] # props[id]) =>
                      /\ resp'.status = 200
                      /\ resp'.prop_id = id
                      /\ resp'.caller # None
                      /\ \/ props[id].host_id = resp'.caller
                         \/ users[resp'.caller].role = "admin"
        /\ (/\ resp'.op \in {"update_property", "delete_property"}
            /\ resp'.caller # None
            /\ resp'.prop_id \in DOMAIN props
            /\ props[resp'.prop_id].host_id # resp'.caller
            /\ users[resp'.caller].role # "admin")
           => (resp'.status = 403 /\ props' = props)
      ]_vars

\* a caller who neither owns the listing nor is admin was refused, and the
\* listing is there
C21_Witness ==
    /\ resp.op = "delete_property" /\ resp.status = 403
    /\ resp.caller # None /\ users[resp.caller].role = "user"
    /\ resp.prop_id \in DOMAIN props
    /\ props[resp.prop_id].host_id # resp.caller

\* C23: in every reachable state every identity's role is user, host or
\* admin: register stores user, and set_role with any other value answers
\* 400 and leaves the target's role unchanged.
C23_RolesStayEnumerated ==
    /\ [](/\ \A u \in DOMAIN users : users[u].role \in Roles
          /\ create_user(users, "new@example.com", "password")[Len(users) + 1].role
                = "user")
    /\ [][ (/\ resp'.op = "set_role"
            /\ resp'.role \notin Roles
            /\ resp'.caller # None
            /\ users[resp'.caller].role = "admin")
           => (resp'.status = 400 /\ users' = users)
         ]_vars

\* an admin asked for a role outside the list for an existing identity whose
\* role had been changed before
C23_Witness ==
    /\ resp.op = "set_role" /\ resp.status = 400 /\ resp.role = "owner"
    /\ resp.user_id \in DOMAIN users
    /\ users[resp.user_id].role = "host"

\* C24: approve or reject by an admin on a listing id that does not exist
\* answers 404 and changes no listing; on an existing id it answers with the
\* updated listing.
C24_ModerateMissingIs404 ==
    [][ (/\ resp'.op \in {"approve", "reject"}
         /\ resp'.caller # None
         /\ users[resp'.caller].role = "admin")
        => IF resp'.prop_id \notin DOMAIN props
           THEN resp'.status = 404 /\ props' = props
           ELSE /\ resp'.status = 200
                /\ resp'.data = props'[resp'.prop_id]
                /\ resp'.data.approval_status
                      = (IF resp'.op = "approve" THEN "approved" ELSE "rejected")
                /\ resp'.data.approved_by_admin_id = resp'.caller
                /\ \A i \in DOMAIN props \ {resp'.prop_id} :
                      i \in DOMAIN props' /\ props'[i] = props[i]
      ]_vars

\* an admin moderated an id that is not there while another listing exists
C24_Witness ==
    /\ resp.op \in {"approve", "reject"}
    /\ resp.status = 404
    /\ resp.prop_id \notin DOMAIN props
    /\ DOMAIN props # {}

-----------------------------------------------------------------------------
(* Overlapping approve and reject requests.  Each request has its own      *)
(* session: crud reads the row (get_property), assigns the three           *)
(* attributes, and commit() flushes an UPDATE that names only the          *)
(* attributes whose value differs from the one loaded; the row keeps what  *)
(* is committed for every other column.                                    *)

\* the values approve_property / reject_property assign
moderation_values(op, admin_id, t) ==
    [approval_status |-> IF op = "approve" THEN "approved" ELSE "rejected",
     approved_at |-> IF op = "approve" THEN t ELSE NoTime,
     approved_by_admin_id |-> admin_id]

\* the UPDATE of the flush applied to the committed row
flush_changed(row, loaded, values) ==
    [row EXCEPT
        !.approval_status = IF values.approval_status # loaded.approval_status
                            THEN values.approval_status ELSE @,
        !.approved_at = IF values.approved_at # loaded.approved_at
                        THEN values.approved_at ELSE @,
        !.approved_by_admin_id =
            IF values.approved_by_admin_id # loaded.approved_by_admin_id
            THEN values.approved_by_admin_id ELSE @]

\* the route up to the return of get_property: the guard, then the SELECT
moderate_read(p, op) ==
    /\ txn[p].pc = "idle"
    /\ \E b \in AccessBearers, prop_id \in PropIds :
        LET g0 == api_get_current_user(b.credentials, b.token, now, users)
            g == require_role("admin", g0, users)
            found == get_property(props, prop_id) # None
            status == IF g.status # 200 THEN g.status
                      ELSE IF ~found THEN 404 ELSE 200
        IN IF status # 200
           THEN /\ resp' = [op |-> op, status |-> status, caller |-> g0.user_id,
                            prop_id |-> prop_id,
                            prior |-> IF found THEN props[prop_id].approval_status
                                      ELSE "absent",
                            data |-> None]
                /\ UNCHANGED txn
           ELSE /\ txn' = [txn EXCEPT ![p] =
                              [pc |-> "flush", op |-> op, prop_id |-> prop_id,
                               admin_id |-> g.user_id, loaded |-> props[prop_id]]]
                /\ UNCHANGED resp
    /\ UNCHANGED <<props, nextPropId>>

\* the assignments, commit() and refresh() of the same request
moderate_flush(p) ==
    /\ txn[p].pc = "flush"
    /\ LET t == txn[p]
           after == [props EXCEPT ![t.prop_id] =
                        flush_changed(@, t.loaded,
                                      moderation_values(t.op, t.admin_id, now))]
       IN /\ props' = after
          /\ resp' = [op |-> t.op, status |-> 200, caller |-> t.admin_id,
                      prop_id |-> t.prop_id, prior |-> t.loaded.approval_status,
                      data |-> after[t.prop_id]]
    /\ txn' = [txn EXCEPT ![p] = Idle]
    /\ UNCHANGED nextPropId

OthersModConc == <<users, rows, held, ticks>>

NextModConc ==
    \/ host_create_property /\ UNCHANGED <<now, txn>> /\ UNCHANGED OthersModConc
    \/ \E p \in Procs : moderate_read(p, "approve") /\ UNCHANGED now
                           /\ UNCHANGED OthersModConc
    \/ \E p \in Procs : moderate_read(p, "reject") /\ UNCHANGED now
                           /\ UNCHANGED OthersModConc
    \/ \E p \in Procs : moderate_flush(p) /\ UNCHANGED now /\ UNCHANGED OthersModConc
    \/ Tick({1}, MaxModTicks)

SpecModConc == InitMod /\ [][NextModConc]_vars

\* C25: in every reachable state approved_at is non-null iff approval_status
\* is "approved", also when an approve and a reject of the same listing
\* overlap.
C25_StampIffApproved ==
    \A i \in DOMAIN props :
        (props[i].approved_at # NoTime) <=> (props[i].approval_status = "approved")

-----------------------------------------------------------------------------
(* Edits of listings in every moderation state, with every combination of  *)
(* supplied content fields.                                                *)

NextEdit ==
    \/ host_create_property /\ UNCHANGED users /\ UNCHANGED OthersMod
    \/ admin_moderate("approve") /\ UNCHANGED users /\ UNCHANGED OthersMod
    \/ admin_moderate("reject") /\ UNCHANGED users /\ UNCHANGED OthersMod
    \/ host_write_data("update_property", UpdateForms)
          /\ UNCHANGED users /\ UNCHANGED OthersMod

SpecEdit == InitMod /\ [][NextEdit]_vars

UpdateFrame(row) ==
    <<row.approval_status, row.approved_at, row.approved_by_admin_id,
      row.is_active, row.host_id>>

\* C27: update_property leaves approval_status, approved_at,
\* approved_by_admin_id, is_active and host_id of the listing unchanged for
\* every combination of supplied fields, so an approved listing that is
\* edited does not return to pending and stays in the public search results.
C27_UpdateKeepsModeration ==
    [][ resp'.op = "update_property" =>
            \A id \in DOMAIN props :
                /\ id \in DOMAIN props'
                /\ UpdateFrame(props'[id]) = UpdateFrame(props[id])
                /\ id \in ItemsOf(list_properties(props, [city |-> ""], 1, MaxProps + 1))
                     => id \in ItemsOf(list_properties(props', [city |-> ""], 1,
                                                       MaxProps + 1))
      ]_vars

\* an approved listing after its title and its city were edited
C27_Witness ==
    /\ resp.op = "update_property" /\ resp.status = 200
    /\ resp.prop_id \in DOMAIN props
    /\ props[resp.prop_id].approval_status = "approved"
    /\ props[resp.prop_id].title = "Flat"
    /\ props[resp.prop_id].city = "Goa"
    /\ resp.prop_id \in ItemsOf(list_properties(props, [city |-> "Goa"], 1, MaxProps + 1))

-----------------------------------------------------------------------------
(* Accounts, sessions, listings and role changes together, from the        *)
(* provisioned state: every caller may try every operation.                *)

OthersRoles == <<now, ticks, txn>>

NextRoles ==
    \/ register({TRUE}) /\ UNCHANGED <<props, nextPropId>> /\ UNCHANGED OthersRoles
    \/ login({TRUE}) /\ UNCHANGED <<props, nextPropId>> /\ UNCHANGED OthersRoles
    \/ refresh({TRUE}) /\ UNCHANGED <<props, nextPropId>> /\ UNCHANGED OthersRoles
    \/ logout({FALSE}, {}) /\ UNCHANGED <<props, nextPropId>> /\ UNCHANGED OthersRoles
    \/ host_create_property /\ UNCHANGED <<users, rows, held>> /\ UNCHANGED OthersRoles
    \/ admin_set_role(DOMAIN users, {"host", "admin"})
          /\ UNCHANGED <<props, nextPropId, rows, held>> /\ UNCHANGED OthersRoles

SpecRoles == Init /\ [][NextRoles]_vars

\* C28: a newly registered identity has role user, and a role changes only
\* in a set_role performed by a caller whose role is admin at that moment;
\* so no register, login, refresh, logout or listing operation, and no
\* request of a non-admin, gives anyone the role host or admin.
C28_RolesChangeOnlyByAdmin ==
    [][ /\ \A u \in DOMAIN users' \ DOMAIN users :
              /\ users'[u].role = "user"
              /\ resp'.op = "register"
        /\ \A u \in DOMAIN users :
              /\ u \in DOMAIN users'
              /\ users'[u].role # users[u].role =>
                    /\ resp'.op = "set_role"
                    /\ resp'.status = 200
                    /\ resp'.user_id = u
                    /\ resp'.caller # None
                    /\ users[resp'.caller].role = "admin"
        /\ (/\ resp'.op = "set_role"
            /\ resp'.caller # None
            /\ users[resp'.caller].role # "admin")
           => (resp'.status = 403 /\ users' = users)
      ]_vars

\* a registered identity holding a session and a listing was refused a role
\* change and still has the role it registered with
C28_Witness ==
    /\ resp.op = "set_role" /\ resp.status = 403
    /\ resp.caller # None
    /\ users[resp.caller].role = "user"
    /\ resp.role \in {"host", "admin"}
    /\ resp.user_id = resp.caller
    /\ \E i \in DOMAIN props : props[i].host_id = resp.caller
    /\ \E i \in DOMAIN rows : rows[i].user_id = resp.caller

=============================================================================
